---- MODULE Spec2Model ----
(***************************************************************************)
(* Model of src/laba4.py: the player-profile store (score.pkl), the        *)
(* caching proxy in front of it, the enemy decorator stack, and main().    *)
(***************************************************************************)
EXTENDS Integers, Sequences, FiniteSets, TLC

VARIABLES
    file,             \* score.pkl on disk: [state, data]
    constructed,      \* the PlayerProfileCacheRepository objects that exist
    cached_profiles,  \* per repository: _cached_profiles (name -> PlayerProfile)
    last,             \* the last call made, its arguments and its outcome
    written,          \* per name: score of the last successful update_high_score (-1: none)
    saved,            \* the mapping of the last _update_db that completed (store-level runs)
    loaded,           \* outcome of the _find_all made since the last _update_db (store-level runs)
    enemy,            \* the enemy of the encounter: base enemy plus decorator stack
    player,           \* the PlayableCharacter of the encounter
    hits,             \* the take_damage calls the last enemy attack issued on the player
    steps,            \* number of combat calls made so far
    struck,           \* the last take_damage call: target, entry layer, amount, health before
    pc,               \* position of main() in its run
    run               \* main()'s locals: name, class, location, and the last round fought

profileVars == <<file, constructed, cached_profiles, last, written>>
storeVars == <<saved, loaded>>
combatVars == <<enemy, player, hits, steps, struck>>
gameVars == <<pc, run>>
vars == <<file, constructed, cached_profiles, last, written, saved, loaded,
          enemy, player, hits, steps, struck, pc, run>>

(***************************************************************************)
(* Bounds of the model.                                                    *)
(***************************************************************************)
MaxScore == 2
MaxAccesses == 3
MaxDepth == 2
MaxSteps == 3
MaxAmount == 45

NameOrder == <<"Alice", "Bob">>
Names == {NameOrder[i] : i \in DOMAIN NameOrder}
Scores == 0..MaxScore
\* test_proxy's proxy_repository and main's repository
Repos == {"proxy_repository", "repository"}

(***************************************************************************)
(* PlayerProfile and the pickled file.                                     *)
(***************************************************************************)
PlayerProfile(name, score) == [name |-> name, score |-> score]
NoProfile == [name |-> "", score |-> 0 - 1]
EmptyMap == [n \in {} |-> NoProfile]
ProfileMaps ==
    UNION {[D -> {PlayerProfile(n, s) : n \in D, s \in Scores}] : D \in SUBSET Names}
\* the mappings the program itself produces: every key holds the profile of that name
WellFormedMaps == {m \in ProfileMaps : \A n \in DOMAIN m : m[n].name = n}

\* pickle.dump(scores, f): the dict's items, one entry per key, written in order
RECURSIVE DumpFrom(_, _)
DumpFrom(scores, i) ==
    IF i > Len(NameOrder) THEN <<>>
    ELSE (IF NameOrder[i] \in DOMAIN scores
          THEN <<[key |-> NameOrder[i],
                  name |-> scores[NameOrder[i]].name,
                  score |-> scores[NameOrder[i]].score]>>
          ELSE <<>>) \o DumpFrom(scores, i + 1)
pickle_dump(scores) == DumpFrom(scores, 1)

\* pickle.load(f): rebuilds the dict from the entries, a fresh PlayerProfile per entry
pickle_load(data) ==
    [k \in {data[i].key : i \in DOMAIN data} |->
        LET i == CHOOSE j \in DOMAIN data :
                    data[j].key = k /\ \A h \in DOMAIN data : data[h].key = k => h <= j
        IN PlayerProfile(data[i].name, data[i].score)]

AbsentFile == [state |-> "absent", data |-> <<>>]
\* a file opened with 'wb' (truncated) whose dump did not complete
TruncatedFile == [state |-> "truncated", data |-> <<>>]
FileOf(scores) == [state |-> "ok", data |-> pickle_dump(scores)]

(***************************************************************************)
(* Storage faults: the environment makes the at-th storage access of a     *)
(* call fail, either at open() or inside pickle (at = 0: no fault).        *)
(***************************************************************************)
NoFault == [at |-> 0, how |-> "open"]
Faults == {NoFault} \cup {[at |-> k, how |-> h] : k \in 1..MaxAccesses, h \in {"open", "pickle"}}

\* the running call: the file, the local player_profile_map, the accesses made,
\* whether RuntimeError is propagating, and the value returned
Ctx(f) == [file |-> f, map |-> EmptyMap, io |-> <<>>, raised |-> FALSE, ret |-> NoProfile]

(***************************************************************************)
(* PlayerProfileDBRepository.                                              *)
(***************************************************************************)
\* mutant of find_all: "except: return {}", the failure is swallowed
find_all_swallow(c, fault) ==
    IF c.raised THEN c
    ELSE IF c.file.state # "ok" \/ fault.at = Len(c.io) + 1
         THEN [c EXCEPT !.map = EmptyMap,
                        !.io = Append(@, [op |-> "read", ok |-> FALSE])]
         ELSE [c EXCEPT !.map = pickle_load(c.file.data),
                        !.io = Append(@, [op |-> "read", ok |-> TRUE])]

\* _find_all: open the file and unpickle it; any exception becomes RuntimeError
find_all(c, fault) ==
    IF c.raised THEN c
    ELSE IF c.file.state # "ok" \/ fault.at = Len(c.io) + 1
         THEN [c EXCEPT !.raised = TRUE,
                        !.io = Append(@, [op |-> "read", ok |-> FALSE])]
         ELSE [c EXCEPT !.map = pickle_load(c.file.data),
                        !.io = Append(@, [op |-> "read", ok |-> TRUE])]

\* _update_db: open(..., 'wb') truncates the file, then pickle.dump writes it
update_db(c, fault, scores) ==
    IF c.raised THEN c
    ELSE IF fault.at = Len(c.io) + 1
         THEN [c EXCEPT !.raised = TRUE,
                        !.file = IF fault.how = "open" THEN @ ELSE TruncatedFile,
                        !.io = Append(@, [op |-> "write", ok |-> FALSE])]
         ELSE [c EXCEPT !.file = FileOf(scores),
                        !.io = Append(@, [op |-> "write", ok |-> TRUE])]

\* _initialize_db: create an empty database when the file does not exist
initialize_db(c, fault) ==
    IF c.file.state = "absent" THEN update_db(c, fault, EmptyMap) ELSE c

\* mutant of db_get_profile: the new profile is returned without being saved
db_get_profile_unsaved(c, fault, name) ==
    LET c1 == find_all(c, fault)
        created == c1.map @@ (name :> PlayerProfile(name, 0))
        c2 == IF c1.raised \/ name \in DOMAIN c1.map THEN c1
              ELSE [c1 EXCEPT !.map = created]
    IN IF c2.raised THEN c2 ELSE [c2 EXCEPT !.ret = c2.map[name]]

\* PlayerProfileDBRepository.get_profile
db_get_profile(c, fault, name) ==
    LET c1 == find_all(c, fault)
        created == c1.map @@ (name :> PlayerProfile(name, 0))
        c2 == IF c1.raised \/ name \in DOMAIN c1.map THEN c1
              ELSE update_db([c1 EXCEPT !.map = created], fault, created)
    IN IF c2.raised THEN c2 ELSE [c2 EXCEPT !.ret = c2.map[name]]

\* mutant of db_update_high_score: the score is set only on a profile it creates
db_update_high_score_new_only(c, fault, name, score) ==
    LET c1 == find_all(c, fault)
        scored == IF name \in DOMAIN c1.map THEN c1.map
                  ELSE c1.map @@ (name :> PlayerProfile(name, score))
    IN IF c1.raised THEN c1
       ELSE update_db([c1 EXCEPT !.map = scored], fault, scored)

\* mutant of db_update_high_score: only the updated profile is written back
db_update_high_score_alone(c, fault, name, score) ==
    LET c1 == find_all(c, fault)
        scored == (name :> PlayerProfile(name, score))
    IN IF c1.raised THEN c1
       ELSE update_db([c1 EXCEPT !.map = scored], fault, scored)

\* PlayerProfileDBRepository.update_high_score
db_update_high_score(c, fault, name, score) ==
    LET c1 == find_all(c, fault)
        present == IF name \in DOMAIN c1.map THEN c1.map
                   ELSE c1.map @@ (name :> PlayerProfile(name, 0))
        scored == [present EXCEPT ![name].score = score]
    IN IF c1.raised THEN c1
       ELSE update_db([c1 EXCEPT !.map = scored], fault, scored)

(***************************************************************************)
(* PlayerProfileCacheRepository.                                           *)
(***************************************************************************)
\* the persisted mapping as a load would see it now (empty when no load can succeed)
Store == IF file.state = "ok" THEN pickle_load(file.data) ELSE EmptyMap

\* Unknown / Store-only / Cached, for repository r and name n, in the current state
StateOf(r, n) ==
    IF r \in constructed /\ n \in DOMAIN cached_profiles[r] THEN "Cached"
    ELSE IF n \in DOMAIN Store THEN "Store-only"
    ELSE "Unknown"

FollowsUpdate(op, r, n) ==
    /\ op = "get_profile"
    /\ last.op = "update_high_score" /\ ~last.raised
    /\ last.repo = r /\ last.name = n

\* the record of a call: arguments, the state it started from, accesses and outcome
Call(op, r, n, s, before, c, fault, ret) ==
    [op |-> op, repo |-> r, name |-> n, score |-> s, before |-> before,
     file_before |-> file.state, env_fault |-> fault.at \in 1..Len(c.io),
     \* for a get_profile made right after a successful update_high_score of the same
     \* name on the same repository: that update's score and starting state
     follows |-> IF FollowsUpdate(op, r, n) THEN last.score ELSE 0 - 1,
     follows_before |-> IF FollowsUpdate(op, r, n) THEN last.before ELSE "-",
     raised |-> c.raised, io |-> c.io, ret |-> IF c.raised THEN NoProfile ELSE ret]
NoCall ==
    [op |-> "none", repo |-> "-", name |-> "", score |-> 0, before |-> "-",
     file_before |-> "-", env_fault |-> FALSE, follows |-> 0 - 1, follows_before |-> "-",
     raised |-> FALSE, io |-> <<>>, ret |-> NoProfile]

\* PlayerProfileCacheRepository.__init__ (and PlayerProfileDBRepository.__init__)
construct_call(r, fault) ==
    /\ r \notin constructed
    /\ LET c == initialize_db(Ctx(file), fault)
       IN /\ file' = c.file
          /\ constructed' = IF c.raised THEN constructed ELSE constructed \cup {r}
          /\ cached_profiles' = [cached_profiles EXCEPT ![r] = EmptyMap]
          /\ last' = Call("init", r, "", 0, "-", c, fault, NoProfile)
    /\ UNCHANGED <<written, storeVars, combatVars>>
Construct(r, fault) == construct_call(r, fault) /\ UNCHANGED gameVars

\* the cache after get_profile(name) on repository r
cache_get_profile(profiles, c, name) ==
    IF name \in DOMAIN profiles \/ c.raised THEN profiles
    ELSE profiles @@ (name :> c.ret)

\* mutant of get_profile_call: the store is asked on every call
get_profile_call_uncached(r, name, fault) ==
    /\ r \in constructed
    /\ LET profiles == cached_profiles[r]
           c == db_get_profile(Ctx(file), fault, name)
           after == IF c.raised THEN profiles
                    ELSE [n \in DOMAIN profiles \cup {name} |->
                            IF n = name THEN c.ret ELSE profiles[n]]
       IN /\ file' = c.file
          /\ cached_profiles' = [cached_profiles EXCEPT ![r] = after]
          /\ last' = Call("get_profile", r, name, 0, StateOf(r, name), c, fault,
                          IF c.raised THEN NoProfile ELSE after[name])
    /\ UNCHANGED <<constructed, written, storeVars, combatVars>>

\* PlayerProfileCacheRepository.get_profile
get_profile_call(r, name, fault) ==
    /\ r \in constructed
    /\ LET profiles == cached_profiles[r]
           c == IF name \in DOMAIN profiles THEN Ctx(file)
                ELSE db_get_profile(Ctx(file), fault, name)
           after == cache_get_profile(profiles, c, name)
       IN /\ file' = c.file
          /\ cached_profiles' = [cached_profiles EXCEPT ![r] = after]
          /\ last' = Call("get_profile", r, name, 0, StateOf(r, name), c, fault,
                          IF c.raised THEN NoProfile ELSE after[name])
    /\ UNCHANGED <<constructed, written, storeVars, combatVars>>
GetProfile(r, name, fault) == get_profile_call(r, name, fault) /\ UNCHANGED gameVars

\* the store side of update_high_score: which repository calls are made, in order
cache_update_store(profiles, c, fault, name, score) ==
    IF name \in DOMAIN profiles
    THEN db_update_high_score(c, fault, name, score)
    ELSE db_get_profile(db_update_high_score(c, fault, name, score), fault, name)

\* mutant of cache_update_high_score: the cached profile is not touched
cache_update_high_score_stale(profiles, c, name, score) ==
    IF name \in DOMAIN profiles THEN profiles
    ELSE IF c.raised THEN profiles
         ELSE profiles @@ (name :> c.ret)

\* the cache side of update_high_score, given the outcome c of the store side
cache_update_high_score(profiles, c, name, score) ==
    IF name \in DOMAIN profiles
    THEN [profiles EXCEPT ![name].score = score]   \* written before the store call
    ELSE IF c.raised THEN profiles
         ELSE profiles @@ (name :> c.ret)

\* PlayerProfileCacheRepository.update_high_score
update_high_score_call(r, name, score, fault) ==
    /\ r \in constructed
    /\ LET profiles == cached_profiles[r]
           c == cache_update_store(profiles, Ctx(file), fault, name, score)
           after == cache_update_high_score(profiles, c, name, score)
       IN /\ file' = c.file
          /\ cached_profiles' = [cached_profiles EXCEPT ![r] = after]
          /\ last' = Call("update_high_score", r, name, score, StateOf(r, name), c, fault, NoProfile)
          /\ written' = IF c.raised THEN written ELSE [written EXCEPT ![name] = score]
    /\ UNCHANGED <<constructed, storeVars, combatVars>>
UpdateHighScore(r, name, score, fault) ==
    update_high_score_call(r, name, score, fault) /\ UNCHANGED gameVars

\* test_proxy: if os.path.exists("score.pkl"): os.remove("score.pkl")
RemoveFile ==
    /\ file.state # "absent"
    /\ file' = AbsentFile
    /\ last' = [NoCall EXCEPT !.op = "remove", !.file_before = file.state]
    /\ UNCHANGED <<constructed, cached_profiles, written, storeVars, combatVars, gameVars>>

(***************************************************************************)
(* The store on its own: _update_db and _find_all called directly.         *)
(***************************************************************************)
NothingSaved == [some |-> FALSE, map |-> EmptyMap]
NothingLoaded == [done |-> FALSE, raised |-> FALSE, env_fault |-> FALSE, map |-> EmptyMap]

\* _update_db(scores)
Save(scores, fault) ==
    /\ LET c == update_db(Ctx(file), fault, scores)
       IN /\ file' = c.file
          /\ saved' = IF c.raised THEN saved ELSE [some |-> TRUE, map |-> scores]
    /\ loaded' = NothingLoaded
    /\ UNCHANGED <<constructed, cached_profiles, last, written, combatVars, gameVars>>

\* _find_all()
Load(fault) ==
    /\ LET c == find_all(Ctx(file), fault)
       IN loaded' = [done |-> TRUE, raised |-> c.raised,
                     env_fault |-> fault.at \in 1..Len(c.io),
                     map |-> IF c.raised THEN EmptyMap ELSE c.map]
    /\ UNCHANGED <<profileVars, saved, combatVars, gameVars>>

(***************************************************************************)
(* Combat: weapons, armor, PlayableCharacter, enemies and decorators.      *)
(***************************************************************************)
WarriorHealth == 100
ThiefHealth == 90
MageHealth == 80
SwordDamage == 20
BowDamage == 15
BowCriticalModifier == 2
StaffDamage == 25
StaffScatterTenths == 2
HeavyArmorTenths == 3
LightArmorTenths == 2
RobeTenths == 1
GoblinHealth == 50
GoblinDamage == 10
DragonHealth == 100
DragonDamage == 30
DragonResistanceTenths == 2
AdapterHealth == 50
additional_damage == 20
\* random.random() is drawn from the grid 0/RollGrid .. RollGrid/RollGrid
RollGrid == 4
Rolls == 0..RollGrid

\* round(num / den) for num >= 0, den > 0: Python rounds a tie to the even neighbour
RoundHalfEven(num, den) ==
    LET q == num \div den
        r == num % den
    IN IF 2 * r > den THEN q + 1
       ELSE IF 2 * r < den THEN q
       ELSE IF q % 2 = 0 THEN q ELSE q + 1

\* round(damage * (1 - tenths/10)) as the float arithmetic of the code gives it for
\* -200 < damage < 200: the exact quotient rounded half-to-even, except that the float
\* product 45 * 0.7 (and 85 * 0.7, 165 * 0.7) falls just below the tie and rounds
\* towards zero; round() is symmetric about zero
RoundReduced(damage, tenths) ==
    LET a == IF damage < 0 THEN 0 - damage ELSE damage
        m == IF tenths = 3 /\ a \in {45, 85, 165}
             THEN (a * (10 - tenths)) \div 10
             ELSE RoundHalfEven(a * (10 - tenths), 10)
    IN IF damage < 0 THEN 0 - m ELSE m

Max(a, b) == IF a >= b THEN a ELSE b

CharacterClasses == {"WARRIOR", "THIEF", "MAGE"}
starting_health(cls) ==
    CASE cls = "WARRIOR" -> WarriorHealth
      [] cls = "THIEF" -> ThiefHealth
      [] cls = "MAGE" -> MageHealth
\* get_chest(cls).get_armor().get_defense(), in tenths
get_defense(cls) ==
    CASE cls = "WARRIOR" -> HeavyArmorTenths
      [] cls = "THIEF" -> LightArmorTenths
      [] cls = "MAGE" -> RobeTenths
\* get_chest(cls).get_weapon().get_damage() when random.random() gives roll/RollGrid
get_damage(cls, roll) ==
    CASE cls = "WARRIOR" -> SwordDamage
      [] cls = "THIEF" -> IF 10 * roll <= 3 * RollGrid
                          THEN BowDamage * BowCriticalModifier ELSE BowDamage
      [] cls = "MAGE" ->
            \* factor = 1 + (roll * 2 * scatter - scatter); round(damage * factor)
            RoundHalfEven(StaffDamage * (10 * RollGrid + 2 * StaffScatterTenths * roll
                                         - StaffScatterTenths * RollGrid),
                          10 * RollGrid)

\* PlayableCharacter.Builder ... build()
NewPlayer(cls) == [class |-> cls, health |-> starting_health(cls)]

\* mutant of reduced_damage: the armor is not applied
reduced_damage_raw(p, damage) == Max(0, damage)

\* mutant of reduced_damage: the reduced damage is not floored at 0
reduced_damage_unfloored(p, damage) == RoundReduced(damage, get_defense(p.class))

\* PlayableCharacter.take_damage: the health left after take_damage(damage)
reduced_damage(p, damage) == Max(0, RoundReduced(damage, get_defense(p.class)))
player_take_damage(p, damage) == [p EXCEPT !.health = @ - reduced_damage(p, damage)]
player_is_alive(p) == p.health > 0

\* decorator layers; each is an Enemy of its own, with the fields Enemy.__init__ sets
DecoratorTypes == {"BaseEnemyDecorator", "LegendaryEnemyDecorator", "WindfuryEnemyDecorator"}
Layer(t) == [type |-> t, health |-> 0, damage |-> 0]
EnemyKinds == {"Goblin", "Dragon", "WeaponToEnemyAdapter"}

Goblin == [kind |-> "Goblin", health |-> GoblinHealth, damage |-> GoblinDamage, stack |-> <<>>]
Dragon == [kind |-> "Dragon", health |-> DragonHealth, damage |-> DragonDamage, stack |-> <<>>]
\* WeaponToEnemyAdapter(weapon): _damage = weapon.get_damage(), rolled once
WeaponToEnemyAdapter(cls, roll) ==
    [kind |-> "WeaponToEnemyAdapter", health |-> AdapterHealth,
     damage |-> get_damage(cls, roll), stack |-> <<>>]

\* XEnemyDecorator(e): stack[1] wraps the base enemy, the last layer is the outermost
Decorate(e, t) == [e EXCEPT !.stack = Append(@, Layer(t))]

\* mutant of base_take_damage: the damage is added to the health
base_take_damage_plus(e, damage, dispel) ==
    CASE e.kind = "Goblin" -> [e EXCEPT !.health = @ + damage]
      [] e.kind = "Dragon" ->
            [e EXCEPT !.health = @ + RoundReduced(damage, DragonResistanceTenths)]
      [] e.kind = "WeaponToEnemyAdapter" ->
            [e EXCEPT !.health = IF dispel THEN 0 ELSE @ + damage]

\* the base enemy's take_damage (Goblin / Dragon / WeaponToEnemyAdapter)
base_take_damage(e, damage, dispel) ==
    CASE e.kind = "Goblin" -> [e EXCEPT !.health = @ - damage]
      [] e.kind = "Dragon" ->
            [e EXCEPT !.health = @ - RoundReduced(damage, DragonResistanceTenths)]
      [] e.kind = "WeaponToEnemyAdapter" ->
            [e EXCEPT !.health = IF dispel THEN 0 ELSE @ - damage]

\* mutant of enemy_take_damage: a decorator that does not pass the damage on
enemy_take_damage_dropped(e, depth, damage, dispel) ==
    IF depth = 0 THEN base_take_damage(e, damage, dispel) ELSE e

\* BaseEnemyDecorator.take_damage at layer depth: self._wrapee.take_damage(damage)
RECURSIVE enemy_take_damage(_, _, _, _)
enemy_take_damage(e, depth, damage, dispel) ==
    IF depth = 0 THEN base_take_damage(e, damage, dispel)
    ELSE enemy_take_damage(e, depth - 1, damage, dispel)

\* mutant of enemy_health: the decorator reads its own inherited _health field
enemy_health_own(e, depth) == IF depth = 0 THEN e.health ELSE e.stack[depth].health

\* BaseEnemyDecorator.health / is_alive at layer depth: read from the wrapee
RECURSIVE enemy_health(_, _)
enemy_health(e, depth) == IF depth = 0 THEN e.health ELSE enemy_health(e, depth - 1)
RECURSIVE enemy_is_alive_at(_, _)
enemy_is_alive_at(e, depth) ==
    IF depth = 0 THEN e.health > 0 ELSE enemy_is_alive_at(e, depth - 1)
enemy_is_alive(e) == enemy_health(e, Len(e.stack)) > 0

\* mutant of windfury_attack: no second attack
windfury_attack_once(inner) == inner

\* mutant of legendary_attack: the bonus is dealt before the wrapee's attack
legendary_attack_first(inner) == <<[src |-> "bonus", raw |-> additional_damage]>> \o inner

\* WindfuryEnemyDecorator.attack: the calls of the wrapee's attack, made twice
windfury_attack(inner) == inner \o inner
\* LegendaryEnemyDecorator.attack: the wrapee's attack, then take_damage(additional_damage)
legendary_attack(inner) == Append(inner, [src |-> "bonus", raw |-> additional_damage])

\* attack(player) at layer depth: the player.take_damage calls it makes, in order
RECURSIVE attack_calls(_, _)
attack_calls(e, depth) ==
    IF depth = 0 THEN <<[src |-> "base", raw |-> e.damage]>>
    ELSE LET inner == attack_calls(e, depth - 1)
         IN CASE e.stack[depth].type = "BaseEnemyDecorator" -> inner
              [] e.stack[depth].type = "LegendaryEnemyDecorator" -> legendary_attack(inner)
              [] e.stack[depth].type = "WindfuryEnemyDecorator" -> windfury_attack(inner)

\* the player after the first n of the calls, and what each call took off the health
RECURSIVE apply_calls(_, _, _)
apply_calls(p, calls, n) ==
    IF n = 0 THEN p ELSE player_take_damage(apply_calls(p, calls, n - 1), calls[n].raw)
applied_hits(p, calls) ==
    [i \in DOMAIN calls |->
        [src |-> calls[i].src, raw |-> calls[i].raw,
         applied |-> apply_calls(p, calls, i - 1).health - apply_calls(p, calls, i).health]]

\* the record of a take_damage(amount) call: who took it, the layer of the decorator
\* stack it was called on (0: the base enemy itself), and the target's health before
Strike(who, layer, amount, dispel, before) ==
    [who |-> who, layer |-> layer, amount |-> amount, dispel |-> dispel, before |-> before]
NoStrike == Strike("none", 0, 0, FALSE, 0)

\* enemy.attack(player), through the whole decorator stack
EnemyAttack ==
    /\ steps < MaxSteps
    /\ LET calls == attack_calls(enemy, Len(enemy.stack))
       IN /\ player' = apply_calls(player, calls, Len(calls))
          /\ hits' = applied_hits(player, calls)
    /\ steps' = steps + 1
    /\ UNCHANGED <<enemy, struck, profileVars, storeVars, gameVars>>

\* player.attack(enemy): enemy.take_damage(self._weapon.get_damage())
PlayerAttack(roll, dispel) ==
    /\ steps < MaxSteps
    /\ dispel => enemy.kind = "WeaponToEnemyAdapter"
    /\ enemy' = enemy_take_damage(enemy, Len(enemy.stack), get_damage(player.class, roll), dispel)
    /\ struck' = Strike("enemy", Len(enemy.stack), get_damage(player.class, roll), dispel,
                        enemy.health)
    /\ steps' = steps + 1
    /\ UNCHANGED <<player, hits, profileVars, storeVars, gameVars>>

\* take_damage(amount) called on the layer depth of the enemy's decorator stack
TakeDamageAt(depth, amount, dispel) ==
    /\ steps < MaxSteps
    /\ depth \in 0..Len(enemy.stack)
    /\ dispel => enemy.kind = "WeaponToEnemyAdapter"
    /\ enemy' = enemy_take_damage(enemy, depth, amount, dispel)
    /\ struck' = Strike("enemy", depth, amount, dispel, enemy.health)
    /\ steps' = steps + 1
    /\ UNCHANGED <<player, hits, profileVars, storeVars, gameVars>>

\* player.take_damage(amount), for any integer amount
PlayerTakeDamage(amount) ==
    /\ steps < MaxSteps
    /\ player' = player_take_damage(player, amount)
    /\ struck' = Strike("player", 0, amount, FALSE, player.health)
    /\ steps' = steps + 1
    /\ UNCHANGED <<enemy, hits, profileVars, storeVars, gameVars>>

RECURSIVE Stacks(_)
Stacks(n) ==
    IF n = 0 THEN {<<>>}
    ELSE Stacks(n - 1) \cup {Append(st, Layer(t)) : st \in Stacks(n - 1), t \in DecoratorTypes}
BaseEnemies ==
    {Goblin, Dragon} \cup {WeaponToEnemyAdapter(cls, roll) : cls \in CharacterClasses, roll \in Rolls}
Enemies == {[e EXCEPT !.stack = st] : e \in BaseEnemies, st \in Stacks(MaxDepth)}
\* a blow of no damage and the base damages of the weapons
HitAmounts == {0, BowDamage, SwordDamage, StaffDamage}
\* any integer amount, negative ones included
Amounts == (0 - MaxAmount)..MaxAmount

(***************************************************************************)
(* main(): one run of the game.                                            *)
(***************************************************************************)
ForestScore == 10
ManorScore == 50
BarrowScore == 100
StrongEnemyFactor == 2

\* the keys typed at the prompts: the three classes and locations, and one unknown key
\* ("forest": "мистический лес", "manor": "проклятый особняк", "barrow": "логово дракона")
ClassKeys == CharacterClasses \cup {"PALADIN"}
Locations == {"forest", "manor", "barrow"}
LocationKeys == Locations \cup {"nowhere"}

\* get_location(key).enter_location(player): Forest, HauntedManor, DragonBarrow spawn_enemy
spawn_enemy(location, cls, roll) ==
    CASE location = "forest" -> Goblin
      [] location = "manor" -> WeaponToEnemyAdapter(cls, roll)
      [] location = "barrow" -> Dragon

\* add_enemy_modifiers: the pass-through decorator, then one modifier by the coin and,
\* when second_modifier_proc, the other one on top
add_enemy_modifiers(e, legendary_first, second) ==
    LET decorator == Decorate(e, "BaseEnemyDecorator")
    IN IF legendary_first
       THEN LET l == Decorate(decorator, "LegendaryEnemyDecorator")
            IN IF second THEN Decorate(l, "WindfuryEnemyDecorator") ELSE l
       ELSE LET w == Decorate(decorator, "WindfuryEnemyDecorator")
            IN IF second THEN Decorate(w, "LegendaryEnemyDecorator") ELSE w

\* mutant of get_score: a strong enemy costs the base score instead of doubling it
get_score_minus(location, strong) ==
    LET base_score == CASE location = "forest" -> ForestScore
                        [] location = "manor" -> ManorScore
                        [] location = "barrow" -> BarrowScore
    IN IF strong THEN base_score - base_score * StrongEnemyFactor ELSE base_score

\* get_score(location_name, strong_enemy)
get_score(location, strong) ==
    LET base_score == CASE location = "forest" -> ForestScore
                        [] location = "manor" -> ManorScore
                        [] location = "barrow" -> BarrowScore
    IN IF strong THEN base_score * StrongEnemyFactor ELSE base_score

\* one iteration of the combat loop, as it went
NoRound == [events |-> <<>>, enemy_alive |-> FALSE, stunned |-> FALSE]
NoRun ==
    [name |-> "", class |-> "", location |-> "", strong |-> FALSE, error |-> "",
     store_before |-> EmptyMap, rounds |-> 0, round |-> NoRound]

\* repository = PlayerProfileCacheRepository()
MainOpen ==
    /\ pc = "start"
    /\ construct_call("repository", NoFault)
    /\ pc' = "name"
    /\ UNCHANGED run

\* name = input(...); player_profile = repository.get_profile(name)
MainGetProfile(name) ==
    /\ pc = "name"
    /\ get_profile_call("repository", name, NoFault)
    /\ pc' = "class"
    /\ run' = [run EXCEPT !.name = name]

\* class_name = input().upper(); CharacterClass[class_name], KeyError: print, return;
\* otherwise the chest, and the character built from it
MainChooseClass(key) ==
    /\ pc = "class"
    /\ IF key \in CharacterClasses
       THEN /\ player' = NewPlayer(key)
            /\ pc' = "location"
            /\ run' = [run EXCEPT !.class = key]
       ELSE /\ player' = player
            /\ pc' = "aborted"
            /\ run' = [run EXCEPT !.error = "KeyError"]
    /\ UNCHANGED <<enemy, hits, steps, struck, profileVars, storeVars>>

\* location = get_location(input()) raising ValueError on an unknown key; otherwise
\* enter_location, the strong-enemy curse and add_enemy_modifiers
MainChooseLocation(key, cls, roll, strong, legendary_first, second) ==
    /\ pc = "location"
    /\ IF key \in Locations
       THEN /\ enemy' = IF strong
                        THEN add_enemy_modifiers(spawn_enemy(key, cls, roll),
                                                 legendary_first, second)
                        ELSE spawn_enemy(key, cls, roll)
            /\ pc' = "fight"
            /\ run' = [run EXCEPT !.location = key, !.strong = strong]
       ELSE /\ enemy' = enemy
            /\ pc' = "aborted"
            /\ run' = [run EXCEPT !.error = "ValueError"]
    /\ UNCHANGED <<player, hits, steps, struck, profileVars, storeVars>>

\* mutant of enemy_strikes: no check that the enemy survived the player's attack
enemy_strikes_unchecked(e, stunned) == ~stunned

\* whether the enemy attacks in this iteration: not after "if not enemy.is_alive():
\* break", not after "if stunned: continue"
enemy_strikes(e, stunned) == enemy_is_alive(e) /\ ~stunned

\* one iteration of "while player.is_alive() and enemy.is_alive()"
Round(roll, dispel, stunned) ==
    /\ pc = "fight"
    /\ player_is_alive(player) /\ enemy_is_alive(enemy)
    /\ dispel => enemy.kind = "WeaponToEnemyAdapter"
    /\ LET amount == get_damage(player.class, roll)
           e1 == enemy_take_damage(enemy, Len(enemy.stack), amount, dispel)
           strikes == enemy_strikes(e1, stunned)
           calls == attack_calls(e1, Len(e1.stack))
       IN /\ stunned => enemy_is_alive(e1)     \* no stun roll after the break
          /\ enemy' = e1
          /\ struck' = Strike("enemy", Len(enemy.stack), amount, dispel, enemy.health)
          /\ player' = IF strikes THEN apply_calls(player, calls, Len(calls)) ELSE player
          /\ hits' = IF strikes THEN applied_hits(player, calls) ELSE hits
          /\ run' = [run EXCEPT
                        !.rounds = @ + 1,
                        !.round = [events |-> IF strikes
                                              THEN <<"player.attack", "enemy.attack">>
                                              ELSE <<"player.attack">>,
                                   enemy_alive |-> enemy_is_alive(e1),
                                   stunned |-> stunned]]
    /\ UNCHANGED <<steps, pc, profileVars, storeVars>>

\* after the loop, "if not player.is_alive()": repository.update_high_score(name, 0)
MainDefeat ==
    /\ pc = "fight"
    /\ ~(player_is_alive(player) /\ enemy_is_alive(enemy))
    /\ ~player_is_alive(player)
    /\ update_high_score_call("repository", run.name, 0, NoFault)
    /\ pc' = "updated"
    /\ UNCHANGED run

\* after the loop, the enemy defeated: update_high_score(name, get_score(...))
MainVictory ==
    /\ pc = "fight"
    /\ ~(player_is_alive(player) /\ enemy_is_alive(enemy))
    /\ player_is_alive(player)
    /\ update_high_score_call("repository", run.name,
                              get_score(run.location, run.strong), NoFault)
    /\ pc' = "updated"
    /\ UNCHANGED run

\* player_profile = repository.get_profile(name); print; return
MainShowScore ==
    /\ pc = "updated"
    /\ get_profile_call("repository", run.name, NoFault)
    /\ pc' = "done"
    /\ UNCHANGED run

(***************************************************************************)
(* Initial states and specifications.                                      *)
(***************************************************************************)
IdleProfiles ==
    /\ file = AbsentFile
    /\ constructed = {}
    /\ cached_profiles = [r \in Repos |-> EmptyMap]
    /\ last = NoCall
    /\ written = [n \in Names |-> 0 - 1]
IdleStore ==
    /\ saved = NothingSaved
    /\ loaded = NothingLoaded
IdleCombat ==
    /\ enemy = Goblin
    /\ player = NewPlayer("WARRIOR")
    /\ hits = <<>>
    /\ steps = 0
    /\ struck = NoStrike
IdleGame ==
    /\ pc = "idle"
    /\ run = NoRun

\* the file as earlier runs of the program left it: missing, or a saved mapping
InitProfiles ==
    /\ file \in {AbsentFile} \cup {FileOf(m) : m \in WellFormedMaps}
    /\ constructed = {}
    /\ cached_profiles = [r \in Repos |-> EmptyMap]
    /\ last = NoCall
    /\ written = [n \in Names |-> 0 - 1]
    /\ IdleStore
    /\ IdleCombat
    /\ IdleGame

\* both repositories of the program on the one score file
NextShared ==
    \/ \E r \in Repos : Construct(r, NoFault)
    \/ \E r \in Repos, n \in Names : GetProfile(r, n, NoFault)
    \/ \E r \in Repos, n \in Names, s \in Scores : UpdateHighScore(r, n, s, NoFault)
SpecShared == InitProfiles /\ [][NextShared]_vars

\* both repositories, and test_proxy's os.remove of the score file
Next ==
    \/ \E r \in Repos : Construct(r, NoFault)
    \/ \E r \in Repos, n \in Names : GetProfile(r, n, NoFault)
    \/ \E r \in Repos, n \in Names, s \in Scores : UpdateHighScore(r, n, s, NoFault)
    \/ RemoveFile
Spec == InitProfiles /\ [][Next]_vars

\* one repository, storage that works
NextCache ==
    \/ Construct("repository", NoFault)
    \/ \E n \in Names : GetProfile("repository", n, NoFault)
    \/ \E n \in Names, s \in Scores : UpdateHighScore("repository", n, s, NoFault)
SpecCache == InitProfiles /\ [][NextCache]_vars

\* one repository, storage that can fail
NextFaulty ==
    \/ \E fault \in Faults : Construct("repository", fault)
    \/ \E n \in Names, fault \in Faults : GetProfile("repository", n, fault)
    \/ \E n \in Names, s \in Scores, fault \in Faults :
            UpdateHighScore("repository", n, s, fault)
SpecFaulty == InitProfiles /\ [][NextFaulty]_vars

\* the store alone
InitStore ==
    /\ file \in {AbsentFile} \cup {FileOf(m) : m \in WellFormedMaps}
    /\ saved = IF file.state = "ok" THEN [some |-> TRUE, map |-> pickle_load(file.data)]
               ELSE NothingSaved
    /\ loaded = NothingLoaded
    /\ constructed = {}
    /\ cached_profiles = [r \in Repos |-> EmptyMap]
    /\ last = NoCall
    /\ written = [n \in Names |-> 0 - 1]
    /\ IdleCombat
    /\ IdleGame
NextStore ==
    \/ \E m \in ProfileMaps, fault \in Faults : Save(m, fault)
    \/ \E fault \in Faults : Load(fault)
SpecStore == InitStore /\ [][NextStore]_vars

\* one encounter: any enemy under any decorator stack against any character class
InitCombat ==
    /\ enemy \in Enemies
    /\ player \in {NewPlayer(cls) : cls \in CharacterClasses}
    /\ hits = <<>>
    /\ steps = 0
    /\ struck = NoStrike
    /\ IdleProfiles
    /\ IdleStore
    /\ IdleGame
NextCombat ==
    \/ EnemyAttack
    \/ \E roll \in Rolls, dispel \in BOOLEAN : PlayerAttack(roll, dispel)
SpecCombat == InitCombat /\ [][NextCombat]_vars

\* one run of main(), the score file as earlier runs left it
InitGame ==
    /\ file \in {AbsentFile, FileOf(EmptyMap),
                  FileOf([n \in {NameOrder[1]} |-> PlayerProfile(n, MaxScore)])}
    /\ constructed = {}
    /\ cached_profiles = [r \in Repos |-> EmptyMap]
    /\ last = NoCall
    /\ written = [n \in Names |-> 0 - 1]
    /\ IdleStore
    /\ IdleCombat
    /\ pc = "start"
    /\ run = [NoRun EXCEPT !.store_before = Store]
NextGame ==
    \/ MainOpen
    \/ \E name \in Names : MainGetProfile(name)
    \/ \E key \in ClassKeys : MainChooseClass(key)
    \/ \E key \in LocationKeys, cls \in CharacterClasses, roll \in Rolls,
          strong \in BOOLEAN, legendary_first \in BOOLEAN, second \in BOOLEAN :
            MainChooseLocation(key, cls, roll, strong, legendary_first, second)
    \/ \E roll \in Rolls, dispel \in BOOLEAN, stunned \in BOOLEAN :
            Round(roll, dispel, stunned)
    \/ MainDefeat
    \/ MainVictory
    \/ MainShowScore
SpecGame == InitGame /\ [][NextGame]_vars

\* take_damage called on any layer of any decorator stack
NextStack ==
    \E depth \in 0..MaxDepth, amount \in HitAmounts, dispel \in BOOLEAN :
        TakeDamageAt(depth, amount, dispel)
InitStack ==
    /\ enemy \in {[e EXCEPT !.stack = st] :
                    e \in {Goblin, Dragon, WeaponToEnemyAdapter("WARRIOR", 0)},
                    st \in Stacks(MaxDepth)}
    /\ player = NewPlayer("WARRIOR")
    /\ hits = <<>>
    /\ steps = 0
    /\ struck = NoStrike
    /\ IdleProfiles
    /\ IdleStore
    /\ IdleGame
SpecStack == InitStack /\ [][NextStack]_vars

\* take_damage and attack called in any order on any enemy and any character, with
\* amounts that are not negative: no damage, and a blow that fells a fresh dragon
MortalAmounts == {0, DragonHealth + StaffDamage}
NextMortal ==
    \/ \E depth \in 0..MaxDepth, amount \in MortalAmounts, dispel \in BOOLEAN :
            TakeDamageAt(depth, amount, dispel)
    \/ \E amount \in MortalAmounts : PlayerTakeDamage(amount)
    \/ EnemyAttack
    \/ \E roll \in Rolls, dispel \in BOOLEAN : PlayerAttack(roll, dispel)
InitMortal ==
    /\ enemy \in {[e EXCEPT !.stack = st] :
                    e \in {Goblin, Dragon, WeaponToEnemyAdapter("WARRIOR", 0)},
                    st \in Stacks(MaxDepth)}
    /\ player \in {NewPlayer(cls) : cls \in CharacterClasses}
    /\ hits = <<>>
    /\ steps = 0
    /\ struck = NoStrike
    /\ IdleProfiles
    /\ IdleStore
    /\ IdleGame
SpecMortal == InitMortal /\ [][NextMortal]_vars

\* take_damage called on a character of any class with any amount
NextArmor == \E amount \in Amounts : PlayerTakeDamage(amount)
InitArmor ==
    /\ enemy = Goblin
    /\ player \in {NewPlayer(cls) : cls \in CharacterClasses}
    /\ hits = <<>>
    /\ steps = 0
    /\ struck = NoStrike
    /\ IdleProfiles
    /\ IdleStore
    /\ IdleGame
SpecArmor == InitArmor /\ [][NextArmor]_vars

(***************************************************************************)
(* Properties.                                                             *)
(***************************************************************************)
Cached(r) == cached_profiles[r]
IsCall == last.op \in {"get_profile", "update_high_score"}
Failed(io) == {i \in DOMAIN io : ~io[i].ok}

\* C1: on one repository with working storage, after every update_high_score(name, s)
\* (name cached before or not) the cached score and the stored score of name both
\* equal s, and in every state every cached name is in the store with the same score.
C1_CacheEqualsStore ==
    /\ \A n \in DOMAIN Cached("repository") :
            n \in DOMAIN Store /\ Cached("repository")[n].score = Store[n].score
    /\ (last.op = "update_high_score" /\ ~last.raised) =>
            /\ last.name \in DOMAIN Cached(last.repo) /\ last.name \in DOMAIN Store
            /\ Cached(last.repo)[last.name].score = last.score
            /\ Store[last.name].score = last.score
\* an update of a cached name to a new score, while the other names are cached too
C1_Witness ==
    /\ last.op = "update_high_score" /\ ~last.raised /\ last.before = "Cached"
    /\ last.score = MaxScore
    /\ DOMAIN Cached("repository") = Names

\* C2: an update_high_score of a cached name that fails (store read or store write
\* failed) leaves the cached score equal to the stored score.
C2_FailedUpdateIsAtomic ==
    (last.op = "update_high_score" /\ last.raised /\ last.before = "Cached") =>
        /\ last.name \in DOMAIN Store
        /\ Cached(last.repo)[last.name].score = Store[last.name].score

\* C3: through whichever repository of the process, a get_profile(name) that returns
\* gives the score of the last successful update_high_score of that name.
C3_GetNeverStale ==
    (last.op = "get_profile" /\ ~last.raised /\ written[last.name] >= 0) =>
        last.ret.score = written[last.name]

\* C4: a get_profile(name) made right after a successful update_high_score(name, s) on
\* the same repository returns score s, whatever state name was in before the update.
C4_UpdateThenGet ==
    (last.op = "get_profile" /\ last.follows >= 0) =>
        ~last.raised /\ last.ret.name = last.name /\ last.ret.score = last.follows
\* the update found the name in the store only, with another score
C4_Witness ==
    /\ last.op = "get_profile" /\ last.follows = MaxScore
    /\ last.follows_before = "Store-only"
    /\ ~last.raised

\* C5: get_profile(name) for a name in neither cache nor store does not raise, returns
\* a profile of that name with score 0, and leaves name in the store with score 0 and
\* in the cache.
C5_UnknownIsCreated ==
    (last.op = "get_profile" /\ last.before = "Unknown") =>
        /\ ~last.raised
        /\ last.ret = PlayerProfile(last.name, 0)
        /\ last.name \in DOMAIN Store /\ Store[last.name] = PlayerProfile(last.name, 0)
        /\ last.name \in DOMAIN Cached(last.repo)
C5_Witness ==
    /\ last.op = "get_profile" /\ last.before = "Unknown"
    /\ last.file_before = "ok"
    /\ DOMAIN Store = Names

\* C6: a storage access that fails during get_profile or update_high_score makes the
\* call raise, nothing is returned, and it is the last access of the call (no retry).
C6_FailurePropagates ==
    IsCall =>
        \A i \in Failed(last.io) :
            last.raised /\ last.ret = NoProfile /\ i = Len(last.io)
\* the re-read of update_high_score's not-cached branch fails, after a good write
C6_Witness ==
    /\ last.op = "update_high_score" /\ last.raised
    /\ Len(last.io) = 3 /\ Failed(last.io) = {3}

\* C7: a load made after any sequence of saves returns the mapping of the last save
\* that completed, name for name and score for score.
C7_LoadReturnsLastSave ==
    (loaded.done /\ ~loaded.env_fault /\ saved.some) =>
        ~loaded.raised /\ loaded.map = saved.map

\* C8: a get_profile or update_high_score that loads the mapping while the file is
\* absent gets the empty mapping and does not raise.
C8_AbsentLoadsEmpty ==
    (IsCall /\ last.file_before = "absent" /\ last.io # <<>> /\ ~last.env_fault) =>
        ~last.raised

\* the decorator types of the stack, innermost first, pass-through layers left out
Modifiers(e) ==
    LET types == [i \in DOMAIN e.stack |-> e.stack[i].type]
    IN SelectSeq(types, LAMBDA t : t # "BaseEnemyDecorator")
RECURSIVE SumRaw(_, _)
SumRaw(hs, n) == IF n = 0 THEN 0 ELSE SumRaw(hs, n - 1) + hs[n].raw
Raws(hs) == [i \in DOMAIN hs |-> hs[i].raw]
Srcs(hs) == [i \in DOMAIN hs |-> hs[i].src]

\* C9: one attack of a Windfury decorator over a base enemy of damage D issues exactly
\* the calls take_damage(D), take_damage(D); one attack of Windfury over Legendary
\* over the base issues D, 20, D, 20: two attack events, 2 * (D + 20) in total.
C9_WindfuryAttacksTwice ==
    hits # <<>> =>
        /\ Modifiers(enemy) = <<"WindfuryEnemyDecorator">> =>
                /\ Raws(hits) = <<enemy.damage, enemy.damage>>
                /\ SumRaw(hits, Len(hits)) = 2 * enemy.damage
        /\ Modifiers(enemy) = <<"LegendaryEnemyDecorator", "WindfuryEnemyDecorator">> =>
                /\ Raws(hits) = <<enemy.damage, additional_damage,
                                  enemy.damage, additional_damage>>
                /\ Srcs(hits) = <<"base", "bonus", "base", "bonus">>
                /\ SumRaw(hits, Len(hits)) = 2 * (enemy.damage + additional_damage)
C9_Witness ==
    /\ hits # <<>>
    /\ Modifiers(enemy) = <<"LegendaryEnemyDecorator", "WindfuryEnemyDecorator">>
    /\ enemy.kind = "Dragon"

BonusHits == {i \in DOMAIN hits : hits[i].src = "bonus"}

\* C10 as claimed: the bonus part of a Legendary attack lowers the target's health by
\* the full bonus, whatever the target's armor.
C10_BonusUnmitigated ==
    \A i \in BonusHits : hits[i].applied = additional_damage

\* C10 as amended: the bonus is handed in full to the target's take_damage, which
\* applies the armor to it as to any hit: the health drops by 14, 16 or 18 for
\* defense 0.3, 0.2, 0.1.
C10_BonusMitigated ==
    \A i \in BonusHits :
        /\ hits[i].raw = additional_damage
        /\ hits[i].applied = CASE player.class = "WARRIOR" -> 14
                               [] player.class = "THIEF" -> 16
                               [] player.class = "MAGE" -> 18
C10_Witness ==
    /\ BonusHits # {}
    /\ player.class = "WARRIOR"
    /\ enemy.kind = "Goblin"

\* C11: whatever the decorator stack and whichever layer take_damage(a) is called on,
\* the enemy's health afterwards is what one take_damage(a) on the base enemy itself
\* gives; health and is_alive() read at every layer are the base enemy's; the layers'
\* own health fields stay 0 and are never read.
C11_StackIsTransparent ==
    /\ \A d \in 0..Len(enemy.stack) :
            /\ enemy_health(enemy, d) = enemy.health
            /\ enemy_is_alive_at(enemy, d) = (enemy.health > 0)
    /\ \A i \in DOMAIN enemy.stack : enemy.stack[i].health = 0
    /\ struck.who = "enemy" =>
            enemy.health =
                base_take_damage([enemy EXCEPT !.health = struck.before, !.stack = <<>>],
                                 struck.amount, struck.dispel).health
\* a live Dragon under two modifiers hit on the middle layer
C11_Witness ==
    /\ struck.who = "enemy" /\ struck.layer = 1 /\ struck.amount = BowDamage
    /\ enemy.kind = "Dragon" /\ enemy.health = DragonHealth - 12
    /\ Modifiers(enemy) = <<"LegendaryEnemyDecorator", "WindfuryEnemyDecorator">>

\* C12: take_damage(a) on a character of defense d lowers the health by
\* max(0, round(a * (1 - d))): an integer nearest to a * (1 - d) when that is not
\* negative, 0 otherwise; take_damage(20) under defense 0.3 lowers it by 14; the health
\* never rises, whatever the integer a and the armor.
C12_ArmorReducesDamage ==
    struck.who = "player" =>
        LET k == get_defense(player.class)
            exact10 == struck.amount * (10 - k)      \* ten times a * (1 - d)
            taken == struck.before - player.health
        IN /\ taken >= 0
           /\ exact10 < 0 => taken = 0
           /\ exact10 >= 0 => 10 * taken - exact10 \in (0 - 5)..5
           /\ (struck.amount = 20 /\ k = 3) => taken = 14
\* the warrior takes 45: 45 * 0.7 is the tie 31.5
C12_Witness ==
    /\ struck.who = "player" /\ struck.amount = 45
    /\ player.class = "WARRIOR" /\ struck.before - player.health = 31

\* C13: when main() is given an unknown class key or an unknown location key and
\* aborts, no profile has been created or modified: the store holds what it held
\* before the run, and the cache holds only profiles the store held before the run.
C13_AbortChangesNothing ==
    pc = "aborted" =>
        /\ Store = run.store_before
        /\ \A n \in DOMAIN Cached("repository") :
                /\ n \in DOMAIN run.store_before
                /\ Cached("repository")[n] = run.store_before[n]

\* C14: the score recorded for a name is the best of the scores written: a successful
\* update_high_score(name, s) leaves cache and store at s or above, and at the
\* maximum of s and the score recorded before when a score was written before.
C14_BestScoreKept ==
    [][(last'.op = "update_high_score" /\ ~last'.raised) =>
            LET n == last'.name
                s == last'.score
            IN /\ n \in DOMAIN Store' /\ Store'[n].score >= s
               /\ n \in DOMAIN cached_profiles'[last'.repo] /\ cached_profiles'[last'.repo][n].score >= s
               /\ written[n] >= 0 =>
                    /\ Store'[n].score = Max(Store[n].score, s)
                    /\ cached_profiles'[last'.repo][n].score = Max(Store[n].score, s)]_vars

\* C15: in every state of a run of main(), every score in the cache and in the store
\* is a non-negative integer.
C15_ScoresNonNegative ==
    /\ \A n \in DOMAIN Store : Store[n].score \in Nat
    /\ \A r \in Repos : \A n \in DOMAIN Cached(r) : Cached(r)[n].score \in Nat
\* the run ended with the doubled score of the dragon's barrow
C15_Witness ==
    /\ pc = "done"
    /\ last.ret.score = BarrowScore * StrongEnemyFactor
    /\ Store[run.name].score = BarrowScore * StrongEnemyFactor

StateRank(st) ==
    CASE st = "Unknown" -> 0
      [] st = "Store-only" -> 1
      [] st = "Cached" -> 2

\* C16: on one repository, under successful calls, a name only moves forward along
\* Unknown, Store-only, Cached: stored names stay stored, cached names stay cached,
\* and every cached name is a stored name.
C16_NamesOnlyMoveForward ==
    /\ [](DOMAIN Cached("repository") \subseteq DOMAIN Store)
    /\ [][/\ DOMAIN Store \subseteq DOMAIN Store'
          /\ DOMAIN Cached("repository") \subseteq DOMAIN Cached("repository")'
          /\ \A n \in Names : StateRank(StateOf("repository", n)')
                                >= StateRank(StateOf("repository", n))]_vars
\* a name found in the store only has been cached, the other one is still store-only
C16_Witness ==
    /\ last.op = "get_profile" /\ last.before = "Store-only"
    /\ StateOf("repository", last.name) = "Cached"
    /\ \E n \in Names : StateOf("repository", n) = "Store-only"

\* C17: a get_profile of a cached name makes no load and no save and leaves cache and
\* store as they were; a get_profile of a name not cached goes to the store.
C17_CachedGetIsLocal ==
    /\ [](last.op = "get_profile" =>
            IF last.before = "Cached" THEN last.io = <<>> ELSE last.io # <<>>)
    /\ [][(last'.op = "get_profile" /\ last'.before = "Cached") =>
            /\ file' = file
            /\ cached_profiles' = cached_profiles
            /\ last'.ret = Cached(last'.repo)[last'.name]]_vars
\* the second get_profile of a name, after an update of it
C17_Witness ==
    /\ last.op = "get_profile" /\ last.before = "Cached" /\ last.io = <<>>
    /\ last.follows = MaxScore /\ last.ret.score = MaxScore

\* C18: an attack of Windfury(Legendary(base)) deals D, 20, D, 20 and an attack of
\* Legendary(Windfury(base)) deals D, D, 20, one bonus less; add_enemy_modifiers
\* builds no other stack of two modifiers.
C18_StackingOrderMatters ==
    /\ (pc \in {"fight", "updated", "done"} /\ Len(Modifiers(enemy)) = 2) =>
            Modifiers(enemy) \in {<<"LegendaryEnemyDecorator", "WindfuryEnemyDecorator">>,
                                  <<"WindfuryEnemyDecorator", "LegendaryEnemyDecorator">>}
    /\ hits # <<>> =>
        /\ Modifiers(enemy) = <<"LegendaryEnemyDecorator", "WindfuryEnemyDecorator">> =>
                /\ Raws(hits) = <<enemy.damage, additional_damage,
                                  enemy.damage, additional_damage>>
                /\ Srcs(hits) = <<"base", "bonus", "base", "bonus">>
        /\ Modifiers(enemy) = <<"WindfuryEnemyDecorator", "LegendaryEnemyDecorator">> =>
                /\ Raws(hits) = <<enemy.damage, enemy.damage, additional_damage>>
                /\ Srcs(hits) = <<"base", "base", "bonus">>
C18_Witness ==
    /\ hits # <<>>
    /\ Modifiers(enemy) = <<"WindfuryEnemyDecorator", "LegendaryEnemyDecorator">>
    /\ Len(hits) = 3 /\ enemy.kind = "WeaponToEnemyAdapter"

\* the least a blow of the player takes off an enemy: the bow on the dragon
MinBlow == RoundReduced(BowDamage, DragonResistanceTenths)

\* C19: every iteration of the combat loop strictly lowers the enemy's health, by
\* MinBlow at least or to 0, so the loop cannot run on: the enemy was alive before
\* the last iteration made, which bounds the iterations by the highest starting
\* health over MinBlow.
C19_CombatTerminates ==
    /\ [][run'.rounds # run.rounds =>
            /\ run'.rounds = run.rounds + 1
            /\ enemy'.health < enemy.health
            /\ enemy'.health <= enemy.health - MinBlow \/ enemy'.health = 0]_vars
    /\ [](MinBlow > 0 /\ (run.rounds - 1) * MinBlow < DragonHealth)
\* the dragon under both modifiers, brought down in more than five rounds
C19_Witness ==
    /\ pc = "updated" /\ run.rounds > 5
    /\ enemy.kind = "Dragon" /\ Len(Modifiers(enemy)) = 2 /\ ~enemy_is_alive(enemy)

\* the while condition has been found false
LoopExited ==
    \/ pc \in {"updated", "done"}
    \/ pc = "fight" /\ ~(player_is_alive(player) /\ enemy_is_alive(enemy))

\* C20: in every round the player attacks first; the enemy attacks only when it is
\* alive after the player's attack and not stunned; when the loop has exited exactly
\* one of player and enemy is alive.
C20_RoundOrder ==
    /\ run.round.events # <<>> =>
            /\ run.round.events[1] = "player.attack"
            /\ (\E i \in DOMAIN run.round.events : run.round.events[i] = "enemy.attack")
                    <=> (run.round.enemy_alive /\ ~run.round.stunned)
    /\ LoopExited => (player_is_alive(player) # enemy_is_alive(enemy))
\* the enemy outlived the last round and killed the player in it
C20_Witness ==
    /\ LoopExited /\ ~player_is_alive(player) /\ enemy_is_alive(enemy)
    /\ run.round.events = <<"player.attack", "enemy.attack">>

\* C21: a get_profile(name) or update_high_score(name, s) leaves every other name as
\* it was: in the store and in the cache of the repository called, name2 is present
\* after the call exactly when it was before, with the same score.
C21_OtherNamesUntouched ==
    [][last'.op \in {"get_profile", "update_high_score"} =>
            \A name2 \in Names \ {last'.name} :
                /\ name2 \in DOMAIN Store' <=> name2 \in DOMAIN Store
                /\ name2 \in DOMAIN Store => Store'[name2] = Store[name2]
                /\ name2 \in DOMAIN cached_profiles'[last'.repo]
                        <=> name2 \in DOMAIN cached_profiles[last'.repo]
                /\ name2 \in DOMAIN cached_profiles[last'.repo] =>
                        cached_profiles'[last'.repo][name2]
                            = cached_profiles[last'.repo][name2]]_vars

\* C22: death is absorbing: an enemy whose health is not above 0 keeps a health not
\* above 0, and is_alive() stays false at every layer of its decorator stack, whatever
\* take_damage and attack calls with non-negative amounts follow; the same for the
\* player's character.
C22_DeathIsAbsorbing ==
    [][/\ enemy.health <= 0 => enemy'.health <= 0
       /\ \A d \in 0..Len(enemy.stack) :
            ~enemy_is_alive_at(enemy, d) => ~enemy_is_alive_at(enemy', d)
       /\ ~enemy_is_alive(enemy) => ~enemy_is_alive(enemy')
       /\ player.health <= 0 => player'.health <= 0
       /\ ~player_is_alive(player) => ~player_is_alive(player')]_vars
\* a decorated adapter already below 0 is hit again and the dispel sets its health to 0
C22_Witness ==
    /\ struck.who = "enemy" /\ struck.before < 0 /\ struck.dispel
    /\ enemy.kind = "WeaponToEnemyAdapter" /\ enemy.health = 0
    /\ Len(enemy.stack) = MaxDepth
    /\ ~player_is_alive(player)

====
